---- MODULE Spec2Model ----
(***************************************************************************)
(* Model of the `Land` contract (src/lib.rs): a registry of properties     *)
(* with a landlord, a monthly price, an approved tenant and the paid       *)
(* timespans.  Each message of the contract is one action; the action is   *)
(* the message body as written, executed against the ledger context        *)
(* (caller, transferred value, block timestamp, balances, transfer,        *)
(* emitted events).  The ledger runs one message at a time: a message      *)
(* runs to its result (the variable last), the ledger takes the result,    *)
(* and the next message or block follows.                                  *)
(*                                                                         *)
(* What the host ledger does around a message (crediting the attached      *)
(* value, discarding the writes of a call that returned Err or trapped)    *)
(* is not code of src/lib.rs and is not modelled: the model shows the      *)
(* writes each body performs, as the unit tests of src/lib.rs observe them.*)
(* A panic (an unwrap of None) ends the message with the result Panic and  *)
(* keeps what the body did before it.                                      *)
(***************************************************************************)
EXTENDS Integers, Sequences, FiniteSets, TLC

\* ------------------------------------------------------------------ bounds
\* Number of properties the owner may register in a run.
MaxProps == 2
\* Largest block timestamp of a run.
MaxTime == 1
\* Number of events after which no call that would emit another is issued.
MaxEvents == 5

\* Accounts that call the contract.
Accounts == {"alice", "bob", "eve"}
\* The account that constructs the contract.
Deployer == "alice"
\* The contract's own account, the source of every transfer.
Contract == "contract"
\* Property ids used as arguments: every id that can be issued, and one more.
PropIds == 1 .. (MaxProps + 1)
\* Accounts registered as landlords, and accounts approved as tenants.
Landlords == {"bob"}
Tenants == {"alice", "eve"}
\* Prices passed to set_price.
Prices == {0, 12000}
\* Values attached to pay_rent.
Values == {11999, 12000, 24050}
\* Balance the contract account holds when it is constructed.
InitialContractBalance == 21600

\* ------------------------------------------------------------------- state
VARIABLES
    owner,             \* Land.owner
    last_property_id,  \* Land.last_property_id
    landlords,         \* Land.landlords : Mapping<PropId, AccountId>
    tenants,           \* Land.tenants   : Mapping<PropId, AccountId>
    prices,            \* Land.prices    : Mapping<PropId, PricePerMth>
    timespans,         \* Land.timespans : Mapping<(PropId, AccountId), (Timestamp, Duration)>
    balance,           \* the ledger's balances, of the accounts and of the contract
    now,               \* the ledger's block timestamp
    events,            \* the number of events the ledger has recorded
    last               \* the last step: the message, its arguments, what it returned
                       \* and the events it emitted

vars == <<owner, last_property_id, landlords, tenants, prices, timespans,
          balance, now, events, last>>

\* Error, and the two other ways a message ends.
Errors == {"NotEnoughRights", "PropertyDoesntExist", "UnsufficientRent",
           "NotApprovedTenant", "NoApprovedTenant", "PriceIsntSet",
           "FailedTransferFunds", "TimespanDoesntExist"}
Ok == "Ok"
Panic == "Panic"

NoAccount == "-"

\* A Mapping is a function defined on the keys that are present.
Has(m, k) == k \in DOMAIN m
Insert(m, k, v) == (k :> v) @@ m
Remove(m, k) == [x \in (DOMAIN m) \ {k} |-> m[x]]

\* Result<T>: Ok with a value, or Err with an Error.
OkVal(v) == [ok |-> TRUE, val |-> v, err |-> Ok]
Err(e) == [ok |-> FALSE, val |-> 0, err |-> e]

Call(op, caller, property, account, amount, result, ret, transfer, emitted) ==
    [op |-> op, caller |-> caller, property |-> property, account |-> account,
     amount |-> amount, result |-> result, ret |-> ret, transfer |-> transfer,
     emitted |-> emitted]

\* No message has run since the ledger took the last result.
Idle == Call("idle", NoAccount, 0, NoAccount, 0, Ok, 0, "none", << >>)

PropertyApproved(property, landlord) ==
    [kind |-> "PropertyApproved", property |-> property, account |-> landlord, amount |-> 0]
TenantApproved(property, tenant) ==
    [kind |-> "TenantApproved", property |-> property, account |-> tenant, amount |-> 0]
PriceSet(property, price) ==
    [kind |-> "PriceSet", property |-> property, account |-> NoAccount, amount |-> price]

\* ------------------------------------------------------------- arithmetic
\* Balance is u128 and Duration is u64.  x < 2^64 and x < 2^128, written with
\* divisions by 2^16 so that no intermediate value leaves the checker's integers.
Fits64(x) == (((x \div 65536) \div 65536) \div 65536) \div 65536 = 0
Fits128(x) == Fits64((((x \div 65536) \div 65536) \div 65536) \div 65536)

\* Option<T>.
Some(v) == [some |-> TRUE, val |-> v]
None == [some |-> FALSE, val |-> 0]

\* u128::checked_div: None when the divisor is zero.
checked_div(a, b) == IF b = 0 THEN None ELSE Some(a \div b)

\* u128::checked_mul: None when the product does not fit in 128 bits.
checked_mul(a, b) == IF Fits128(a) /\ Fits128(a * b) THEN Some(a * b) ELSE None

\* u128 -> u64 by try_into: None when the value does not fit.
try_into_u64(x) == IF Fits64(x) THEN Some(x) ELSE None

\* The share computed as value * 90 / 100, multiplying first.
value_without_tax_mul_first(value) ==
    LET q == checked_mul(value, 90)
    IN  IF ~q.some THEN None ELSE checked_div(q.val, 100)

\* self.env().transferred_value().checked_div(100).unwrap().checked_mul(90).unwrap():
\* None stands for the unwrap of a None, a panic.
value_without_tax(value) ==
    LET q == checked_div(value, 100)
    IN  IF ~q.some THEN None ELSE checked_mul(q.val, 90)

\* transferred_value().checked_div(price).unwrap().try_into().unwrap()
duration_of(value, price) ==
    LET q == checked_div(value, price)
    IN  IF ~q.some THEN None ELSE try_into_u64(q.val)

\* self.env().transfer(dest, value): the ledger moves value from the contract
\* to dest, or refuses.  It cannot move more than the contract holds; host_ok
\* is the ledger's decision otherwise.
transfer_ok(value, host_ok) == host_ok /\ balance[Contract] >= value
transfer(dest, value) ==
    [balance EXCEPT ![Contract] = @ - value, ![dest] = @ + value]

\* ----------------------------------------------------------------- getters
get_landlord(property) ==
    IF Has(landlords, property) THEN [ok |-> TRUE, val |-> landlords[property], err |-> Ok]
    ELSE [ok |-> FALSE, val |-> NoAccount, err |-> "PropertyDoesntExist"]

\* get_price answering the default price when none is set.
get_price_or_default(property) ==
    IF Has(prices, property) THEN OkVal(prices[property]) ELSE OkVal(0)

get_price(property) ==
    IF Has(prices, property) THEN OkVal(prices[property]) ELSE Err("PriceIsntSet")

get_tenant(property) ==
    IF Has(tenants, property) THEN [ok |-> TRUE, val |-> tenants[property], err |-> Ok]
    ELSE [ok |-> FALSE, val |-> NoAccount, err |-> "NoApprovedTenant"]

get_timespan(property, tenant) ==
    IF Has(timespans, <<property, tenant>>)
    THEN [ok |-> TRUE, val |-> timespans[<<property, tenant>>], err |-> Ok]
    ELSE [ok |-> FALSE, val |-> <<0, 0>>, err |-> "TimespanDoesntExist"]

\* ------------------------------------------------------------ construction
Init ==
    /\ owner = Deployer
    /\ last_property_id = 0
    /\ landlords = << >>
    /\ tenants = << >>
    /\ prices = << >>
    /\ timespans = << >>
    /\ balance = [a \in Accounts \cup {Contract} |->
                    IF a = Contract THEN InitialContractBalance ELSE 0]
    /\ now = 0
    /\ events = 0
    /\ last = Idle

\* ---------------------------------------------------------------- messages
\* approve_property numbering the new property after the properties now
\* registered instead of after the counter.
approve_property_by_count(caller, landlord) ==
    /\ last = Idle
    /\ IF caller = owner
       THEN /\ last_property_id < MaxProps
            /\ last_property_id' = Cardinality(DOMAIN landlords) + 1
            /\ landlords' = Insert(landlords, last_property_id', landlord)
            /\ last' = Call("approve_property", caller, 0, landlord, 0, Ok,
                            last_property_id', "none",
                            <<PropertyApproved(last_property_id', landlord)>>)
            /\ events < MaxEvents
            /\ events' = events + 1
            /\ UNCHANGED <<owner, tenants, prices, timespans, balance, now>>
       ELSE /\ last' = Call("approve_property", caller, 0, landlord, 0,
                            "NotEnoughRights", 0, "none", << >>)
            /\ UNCHANGED <<owner, last_property_id, landlords, tenants, prices,
                           timespans, balance, now, events>>

\* approve_property without the owner check.
approve_property_anyone(caller, landlord) ==
    /\ last = Idle
    /\ last_property_id < MaxProps
    /\ last_property_id' = last_property_id + 1
    /\ landlords' = Insert(landlords, last_property_id', landlord)
    /\ last' = Call("approve_property", caller, 0, landlord, 0, Ok,
                    last_property_id', "none",
                    <<PropertyApproved(last_property_id', landlord)>>)
    /\ events < MaxEvents
    /\ events' = events + 1
    /\ UNCHANGED <<owner, tenants, prices, timespans, balance, now>>

approve_property(caller, landlord) ==
    /\ last = Idle
    /\ IF caller = owner
       THEN /\ last_property_id < MaxProps
            /\ last_property_id' = last_property_id + 1
            /\ landlords' = Insert(landlords, last_property_id', landlord)
            /\ last' = Call("approve_property", caller, 0, landlord, 0, Ok,
                            last_property_id', "none",
                            <<PropertyApproved(last_property_id', landlord)>>)
            /\ events < MaxEvents
            /\ events' = events + 1
            /\ UNCHANGED <<owner, tenants, prices, timespans, balance, now>>
       ELSE /\ last' = Call("approve_property", caller, 0, landlord, 0,
                            "NotEnoughRights", 0, "none", << >>)
            /\ UNCHANGED <<owner, last_property_id, landlords, tenants, prices,
                           timespans, balance, now, events>>

\* remove_property returning Ok(()) when the deletion branch ran.
remove_property_reports_ok(caller, property) ==
    /\ last = Idle
    /\ IF ~get_landlord(property).ok
       THEN /\ last' = Call("remove_property", caller, property, NoAccount, 0,
                            "PropertyDoesntExist", 0, "none", << >>)
            /\ UNCHANGED <<owner, last_property_id, landlords, tenants, prices,
                           timespans, balance, now, events>>
       ELSE IF caller = landlords[property] \/ caller = owner
       THEN /\ landlords' = Remove(landlords, property)
            /\ IF Has(tenants, property)
               THEN /\ tenants' = Remove(tenants, property)
                    /\ timespans' = Remove(timespans, <<property, tenants[property]>>)
               ELSE UNCHANGED <<tenants, timespans>>
            /\ prices' = Remove(prices, property)
            /\ last' = Call("remove_property", caller, property, NoAccount, 0,
                            Ok, 0, "none", << >>)
            /\ UNCHANGED <<owner, last_property_id, balance, now, events>>
       ELSE /\ last' = Call("remove_property", caller, property, NoAccount, 0,
                            "NotEnoughRights", 0, "none", << >>)
            /\ UNCHANGED <<owner, last_property_id, landlords, tenants, prices,
                           timespans, balance, now, events>>

\* remove_property leaving the tenant's timespan record behind.
remove_property_keeps_timespan(caller, property) ==
    /\ last = Idle
    /\ IF ~get_landlord(property).ok
       THEN /\ last' = Call("remove_property", caller, property, NoAccount, 0,
                            "PropertyDoesntExist", 0, "none", << >>)
            /\ UNCHANGED <<owner, last_property_id, landlords, tenants, prices,
                           timespans, balance, now, events>>
       ELSE /\ IF caller = landlords[property] \/ caller = owner
               THEN /\ landlords' = Remove(landlords, property)
                    /\ tenants' = Remove(tenants, property)
                    /\ prices' = Remove(prices, property)
                    /\ UNCHANGED timespans
               ELSE UNCHANGED <<landlords, tenants, timespans, prices>>
            /\ last' = Call("remove_property", caller, property, NoAccount, 0,
                            "NotEnoughRights", 0, "none", << >>)
            /\ UNCHANGED <<owner, last_property_id, balance, now, events>>

\* remove_property deleting whoever calls.
remove_property_unguarded(caller, property) ==
    /\ last = Idle
    /\ IF ~get_landlord(property).ok
       THEN /\ last' = Call("remove_property", caller, property, NoAccount, 0,
                            "PropertyDoesntExist", 0, "none", << >>)
            /\ UNCHANGED <<owner, last_property_id, landlords, tenants, prices,
                           timespans, balance, now, events>>
       ELSE /\ landlords' = Remove(landlords, property)
            /\ IF Has(tenants, property)
               THEN /\ tenants' = Remove(tenants, property)
                    /\ timespans' = Remove(timespans, <<property, tenants[property]>>)
               ELSE UNCHANGED <<tenants, timespans>>
            /\ prices' = Remove(prices, property)
            /\ last' = Call("remove_property", caller, property, NoAccount, 0,
                            "NotEnoughRights", 0, "none", << >>)
            /\ UNCHANGED <<owner, last_property_id, balance, now, events>>

\* remove_property leaving the price of the property behind.
remove_property_keeps_price(caller, property) ==
    /\ last = Idle
    /\ IF ~get_landlord(property).ok
       THEN /\ last' = Call("remove_property", caller, property, NoAccount, 0,
                            "PropertyDoesntExist", 0, "none", << >>)
            /\ UNCHANGED <<owner, last_property_id, landlords, tenants, prices,
                           timespans, balance, now, events>>
       ELSE /\ IF caller = landlords[property] \/ caller = owner
               THEN /\ landlords' = Remove(landlords, property)
                    /\ IF Has(tenants, property)
                       THEN /\ tenants' = Remove(tenants, property)
                            /\ timespans' = Remove(timespans, <<property, tenants[property]>>)
                       ELSE UNCHANGED <<tenants, timespans>>
                    /\ UNCHANGED prices
               ELSE UNCHANGED <<landlords, tenants, timespans, prices>>
            /\ last' = Call("remove_property", caller, property, NoAccount, 0,
                            "NotEnoughRights", 0, "none", << >>)
            /\ UNCHANGED <<owner, last_property_id, balance, now, events>>

\* remove_property deleting the landlord record alone.
remove_property_landlord_only(caller, property) ==
    /\ last = Idle
    /\ IF ~get_landlord(property).ok
       THEN /\ last' = Call("remove_property", caller, property, NoAccount, 0,
                            "PropertyDoesntExist", 0, "none", << >>)
            /\ UNCHANGED <<owner, last_property_id, landlords, tenants, prices,
                           timespans, balance, now, events>>
       ELSE /\ IF caller = landlords[property] \/ caller = owner
               THEN /\ landlords' = Remove(landlords, property)
                    /\ UNCHANGED <<tenants, timespans, prices>>
               ELSE UNCHANGED <<landlords, tenants, timespans, prices>>
            /\ last' = Call("remove_property", caller, property, NoAccount, 0,
                            "NotEnoughRights", 0, "none", << >>)
            /\ UNCHANGED <<owner, last_property_id, balance, now, events>>

remove_property(caller, property) ==
    /\ last = Idle
    /\ IF ~get_landlord(property).ok
       THEN /\ last' = Call("remove_property", caller, property, NoAccount, 0,
                            "PropertyDoesntExist", 0, "none", << >>)
            /\ UNCHANGED <<owner, last_property_id, landlords, tenants, prices,
                           timespans, balance, now, events>>
       ELSE /\ IF caller = landlords[property] \/ caller = owner
               THEN /\ landlords' = Remove(landlords, property)
                    /\ IF Has(tenants, property)
                       THEN /\ tenants' = Remove(tenants, property)
                            /\ timespans' = Remove(timespans, <<property, tenants[property]>>)
                       ELSE UNCHANGED <<tenants, timespans>>
                    /\ prices' = Remove(prices, property)
               ELSE UNCHANGED <<landlords, tenants, timespans, prices>>
            /\ last' = Call("remove_property", caller, property, NoAccount, 0,
                            "NotEnoughRights", 0, "none", << >>)
            /\ UNCHANGED <<owner, last_property_id, balance, now, events>>

\* set_price letting the contract owner set the price too.
set_price_owner_too(caller, property, price) ==
    /\ last = Idle
    /\ IF ~get_landlord(property).ok
       THEN /\ last' = Call("set_price", caller, property, NoAccount, price,
                            "PropertyDoesntExist", 0, "none", << >>)
            /\ UNCHANGED <<owner, last_property_id, landlords, tenants, prices,
                           timespans, balance, now, events>>
       ELSE IF caller # landlords[property] /\ caller # owner
       THEN /\ last' = Call("set_price", caller, property, NoAccount, price,
                            "NotEnoughRights", 0, "none", << >>)
            /\ UNCHANGED <<owner, last_property_id, landlords, tenants, prices,
                           timespans, balance, now, events>>
       ELSE /\ prices' = Insert(prices, property, price)
            /\ last' = Call("set_price", caller, property, NoAccount, price, Ok, 0, "none",
                            <<PriceSet(property, price)>>)
            /\ events < MaxEvents
            /\ events' = events + 1
            /\ UNCHANGED <<owner, last_property_id, landlords, tenants, timespans,
                           balance, now>>

\* set_price adding the price to the one already set.
set_price_accumulates(caller, property, price) ==
    /\ last = Idle
    /\ IF ~get_landlord(property).ok
       THEN /\ last' = Call("set_price", caller, property, NoAccount, price,
                            "PropertyDoesntExist", 0, "none", << >>)
            /\ UNCHANGED <<owner, last_property_id, landlords, tenants, prices,
                           timespans, balance, now, events>>
       ELSE IF caller # landlords[property]
       THEN /\ last' = Call("set_price", caller, property, NoAccount, price,
                            "NotEnoughRights", 0, "none", << >>)
            /\ UNCHANGED <<owner, last_property_id, landlords, tenants, prices,
                           timespans, balance, now, events>>
       ELSE /\ prices' = Insert(prices, property,
                                IF Has(prices, property) /\ prices[property] < 24000
                                THEN prices[property] + price ELSE price)
            /\ last' = Call("set_price", caller, property, NoAccount, price, Ok, 0, "none",
                            <<PriceSet(property, price)>>)
            /\ events < MaxEvents
            /\ events' = events + 1
            /\ UNCHANGED <<owner, last_property_id, landlords, tenants, timespans,
                           balance, now>>

\* set_price writing under the last issued id instead of the property passed.
set_price_last_id(caller, property, price) ==
    /\ last = Idle
    /\ IF ~get_landlord(property).ok
       THEN /\ last' = Call("set_price", caller, property, NoAccount, price,
                            "PropertyDoesntExist", 0, "none", << >>)
            /\ UNCHANGED <<owner, last_property_id, landlords, tenants, prices,
                           timespans, balance, now, events>>
       ELSE IF caller # landlords[property]
       THEN /\ last' = Call("set_price", caller, property, NoAccount, price,
                            "NotEnoughRights", 0, "none", << >>)
            /\ UNCHANGED <<owner, last_property_id, landlords, tenants, prices,
                           timespans, balance, now, events>>
       ELSE /\ prices' = Insert(prices, last_property_id, price)
            /\ last' = Call("set_price", caller, property, NoAccount, price, Ok, 0, "none",
                            <<PriceSet(property, price)>>)
            /\ events < MaxEvents
            /\ events' = events + 1
            /\ UNCHANGED <<owner, last_property_id, landlords, tenants, timespans,
                           balance, now>>

set_price(caller, property, price) ==
    /\ last = Idle
    /\ IF ~get_landlord(property).ok
       THEN /\ last' = Call("set_price", caller, property, NoAccount, price,
                            "PropertyDoesntExist", 0, "none", << >>)
            /\ UNCHANGED <<owner, last_property_id, landlords, tenants, prices,
                           timespans, balance, now, events>>
       ELSE IF caller # landlords[property]
       THEN /\ last' = Call("set_price", caller, property, NoAccount, price,
                            "NotEnoughRights", 0, "none", << >>)
            /\ UNCHANGED <<owner, last_property_id, landlords, tenants, prices,
                           timespans, balance, now, events>>
       ELSE /\ prices' = Insert(prices, property, price)
            /\ last' = Call("set_price", caller, property, NoAccount, price, Ok, 0, "none",
                            <<PriceSet(property, price)>>)
            /\ events < MaxEvents
            /\ events' = events + 1
            /\ UNCHANGED <<owner, last_property_id, landlords, tenants, timespans,
                           balance, now>>

\* approve_tenant emitting no TenantApproved event.
approve_tenant_silent(caller, property, tenant) ==
    /\ last = Idle
    /\ IF ~get_landlord(property).ok
       THEN /\ last' = Call("approve_tenant", caller, property, tenant, 0,
                            "PropertyDoesntExist", 0, "none", << >>)
            /\ UNCHANGED <<owner, last_property_id, landlords, tenants, prices,
                           timespans, balance, now, events>>
       ELSE IF caller # landlords[property]
       THEN /\ last' = Call("approve_tenant", caller, property, tenant, 0,
                            "NotEnoughRights", 0, "none", << >>)
            /\ UNCHANGED <<owner, last_property_id, landlords, tenants, prices,
                           timespans, balance, now, events>>
       ELSE /\ tenants' = Insert(tenants, property, tenant)
            /\ last' = Call("approve_tenant", caller, property, tenant, 0, Ok, 0, "none",
                            << >>)
            /\ UNCHANGED <<owner, last_property_id, landlords, prices, timespans,
                           balance, now, events>>

\* approve_tenant deleting the timespan record of the tenant it replaces.
approve_tenant_purges(caller, property, tenant) ==
    /\ last = Idle
    /\ IF ~get_landlord(property).ok
       THEN /\ last' = Call("approve_tenant", caller, property, tenant, 0,
                            "PropertyDoesntExist", 0, "none", << >>)
            /\ UNCHANGED <<owner, last_property_id, landlords, tenants, prices,
                           timespans, balance, now, events>>
       ELSE IF caller # landlords[property]
       THEN /\ last' = Call("approve_tenant", caller, property, tenant, 0,
                            "NotEnoughRights", 0, "none", << >>)
            /\ UNCHANGED <<owner, last_property_id, landlords, tenants, prices,
                           timespans, balance, now, events>>
       ELSE /\ tenants' = Insert(tenants, property, tenant)
            /\ timespans' = IF Has(tenants, property)
                            THEN Remove(timespans, <<property, tenants[property]>>)
                            ELSE timespans
            /\ last' = Call("approve_tenant", caller, property, tenant, 0, Ok, 0, "none",
                            <<TenantApproved(property, tenant)>>)
            /\ events < MaxEvents
            /\ events' = events + 1
            /\ UNCHANGED <<owner, last_property_id, landlords, prices, balance, now>>

approve_tenant(caller, property, tenant) ==
    /\ last = Idle
    /\ IF ~get_landlord(property).ok
       THEN /\ last' = Call("approve_tenant", caller, property, tenant, 0,
                            "PropertyDoesntExist", 0, "none", << >>)
            /\ UNCHANGED <<owner, last_property_id, landlords, tenants, prices,
                           timespans, balance, now, events>>
       ELSE IF caller # landlords[property]
       THEN /\ last' = Call("approve_tenant", caller, property, tenant, 0,
                            "NotEnoughRights", 0, "none", << >>)
            /\ UNCHANGED <<owner, last_property_id, landlords, tenants, prices,
                           timespans, balance, now, events>>
       ELSE /\ tenants' = Insert(tenants, property, tenant)
            /\ last' = Call("approve_tenant", caller, property, tenant, 0, Ok, 0, "none",
                            <<TenantApproved(property, tenant)>>)
            /\ events < MaxEvents
            /\ events' = events + 1
            /\ UNCHANGED <<owner, last_property_id, landlords, prices, timespans,
                           balance, now>>

\* The validations with the tenant looked up before the price.
pay_rent_check_tenant_first(caller, property, value) ==
    IF ~get_tenant(property).ok THEN "NoApprovedTenant"
    ELSE IF caller # get_tenant(property).val THEN "NotApprovedTenant"
    ELSE IF ~get_price(property).ok THEN "PriceIsntSet"
    ELSE IF value < get_price(property).val THEN "UnsufficientRent"
    ELSE IF ~get_landlord(property).ok THEN "PropertyDoesntExist"
    ELSE Ok

\* The validations accepting a caller who holds a timespan record for the
\* property, approved tenant or not.
pay_rent_check_former_tenant(caller, property, value) ==
    IF ~get_price(property).ok THEN "PriceIsntSet"
    ELSE IF value < get_price(property).val THEN "UnsufficientRent"
    ELSE IF ~get_tenant(property).ok THEN "NoApprovedTenant"
    ELSE IF caller # get_tenant(property).val /\ ~get_timespan(property, caller).ok
         THEN "NotApprovedTenant"
    ELSE IF ~get_landlord(property).ok THEN "PropertyDoesntExist"
    ELSE Ok

\* The validations of pay_rent, in the order of the code: the Error of the
\* first that fails, Ok when all pass.
pay_rent_check(caller, property, value) ==
    IF ~get_price(property).ok THEN "PriceIsntSet"
    ELSE IF value < get_price(property).val THEN "UnsufficientRent"
    ELSE IF ~get_tenant(property).ok THEN "NoApprovedTenant"
    ELSE IF caller # get_tenant(property).val THEN "NotApprovedTenant"
    ELSE IF ~get_landlord(property).ok THEN "PropertyDoesntExist"
    ELSE Ok

\* pay_rent recording the timespan before the transfer is attempted.
pay_rent_write_first(caller, property, value, host_ok) ==
    /\ last = Idle
    /\ LET check == pay_rent_check(caller, property, value)
           Fail(result, tr) ==
               last' = Call("pay_rent", caller, property, NoAccount, value, result, 0,
                            tr, << >>)
       IN
       IF check # Ok
       THEN /\ Fail(check, "none")
            /\ UNCHANGED <<owner, last_property_id, landlords, tenants, prices,
                           timespans, balance, now, events>>
       ELSE
       LET price == get_price(property).val
           tenant == get_tenant(property).val
           landlord == get_landlord(property).val
           payout == value_without_tax(value)
           duration == duration_of(value, price)
       IN
       IF ~payout.some \/ ~duration.some
       THEN /\ Fail(Panic, "none")
            /\ UNCHANGED <<owner, last_property_id, landlords, tenants, prices,
                           timespans, balance, now, events>>
       ELSE IF ~transfer_ok(payout.val, host_ok)
       THEN /\ timespans' = Insert(timespans, <<property, tenant>>, <<now, duration.val>>)
            /\ Fail("FailedTransferFunds", "failed")
            /\ UNCHANGED <<owner, last_property_id, landlords, tenants, prices,
                           balance, now, events>>
       ELSE /\ balance' = transfer(landlord, payout.val)
            /\ timespans' = Insert(timespans, <<property, tenant>>, <<now, duration.val>>)
            /\ last' = Call("pay_rent", caller, property, NoAccount, value, Ok, 0,
                            "ok", << >>)
            /\ UNCHANGED <<owner, last_property_id, landlords, tenants, prices, now, events>>

\* pay_rent adding the paid duration to the record the tenant already has.
pay_rent_extends(caller, property, value, host_ok) ==
    /\ last = Idle
    /\ LET check == pay_rent_check(caller, property, value)
           Fail(result, tr) ==
               last' = Call("pay_rent", caller, property, NoAccount, value, result, 0,
                            tr, << >>)
       IN
       IF check # Ok
       THEN /\ Fail(check, "none")
            /\ UNCHANGED <<owner, last_property_id, landlords, tenants, prices,
                           timespans, balance, now, events>>
       ELSE
       LET price == get_price(property).val
           tenant == get_tenant(property).val
           landlord == get_landlord(property).val
           payout == value_without_tax(value)
           duration == duration_of(value, price)
       IN
       IF ~payout.some
       THEN /\ Fail(Panic, "none")
            /\ UNCHANGED <<owner, last_property_id, landlords, tenants, prices,
                           timespans, balance, now, events>>
       ELSE IF ~transfer_ok(payout.val, host_ok)
       THEN /\ Fail("FailedTransferFunds", "failed")
            /\ UNCHANGED <<owner, last_property_id, landlords, tenants, prices,
                           timespans, balance, now, events>>
       ELSE IF ~duration.some
       THEN /\ balance' = transfer(landlord, payout.val)
            /\ Fail(Panic, "ok")
            /\ UNCHANGED <<owner, last_property_id, landlords, tenants, prices,
                           timespans, now, events>>
       ELSE /\ balance' = transfer(landlord, payout.val)
            /\ timespans' = Insert(timespans, <<property, tenant>>,
                                   IF Has(timespans, <<property, tenant>>)
                                   THEN <<timespans[<<property, tenant>>][1],
                                          timespans[<<property, tenant>>][2] + duration.val>>
                                   ELSE <<now, duration.val>>)
            /\ last' = Call("pay_rent", caller, property, NoAccount, value, Ok, 0,
                            "ok", << >>)
            /\ UNCHANGED <<owner, last_property_id, landlords, tenants, prices, now, events>>

pay_rent(caller, property, value, host_ok) ==
    /\ last = Idle
    /\ LET check == pay_rent_check(caller, property, value)
           Fail(result, tr) ==
               last' = Call("pay_rent", caller, property, NoAccount, value, result, 0,
                            tr, << >>)
       IN
       IF check # Ok
       THEN /\ Fail(check, "none")
            /\ UNCHANGED <<owner, last_property_id, landlords, tenants, prices,
                           timespans, balance, now, events>>
       ELSE
       LET price == get_price(property).val
           tenant == get_tenant(property).val
           landlord == get_landlord(property).val
           payout == value_without_tax(value)
           duration == duration_of(value, price)
       IN
       IF ~payout.some
       THEN /\ Fail(Panic, "none")
            /\ UNCHANGED <<owner, last_property_id, landlords, tenants, prices,
                           timespans, balance, now, events>>
       ELSE IF ~transfer_ok(payout.val, host_ok)
       THEN /\ Fail("FailedTransferFunds", "failed")
            /\ UNCHANGED <<owner, last_property_id, landlords, tenants, prices,
                           timespans, balance, now, events>>
       ELSE IF ~duration.some
       THEN /\ balance' = transfer(landlord, payout.val)
            /\ Fail(Panic, "ok")
            /\ UNCHANGED <<owner, last_property_id, landlords, tenants, prices,
                           timespans, now, events>>
       ELSE /\ balance' = transfer(landlord, payout.val)
            /\ timespans' = Insert(timespans, <<property, tenant>>, <<now, duration.val>>)
            /\ last' = Call("pay_rent", caller, property, NoAccount, value, Ok, 0,
                            "ok", << >>)
            /\ UNCHANGED <<owner, last_property_id, landlords, tenants, prices, now, events>>

\* ----------------------------------------------------------- read messages
\* The getters called as messages.  They read no caller and write nothing;
\* the value returned is recorded in last (an account in account, a price or
\* a balance or a (start, duration) pair in ret).
Unchanged == UNCHANGED <<owner, last_property_id, landlords, tenants, prices,
                         timespans, balance, now, events>>

get_landlord_msg(property) ==
    /\ last = Idle
    /\ last' = Call("get_landlord", NoAccount, property, get_landlord(property).val, 0,
                    get_landlord(property).err, 0, "none", << >>)
    /\ Unchanged

get_price_msg(property) ==
    /\ last = Idle
    /\ last' = Call("get_price", NoAccount, property, NoAccount, 0,
                    get_price(property).err, get_price(property).val, "none", << >>)
    /\ Unchanged

get_tenant_msg(property) ==
    /\ last = Idle
    /\ last' = Call("get_tenant", NoAccount, property, get_tenant(property).val, 0,
                    get_tenant(property).err, 0, "none", << >>)
    /\ Unchanged

get_timespan_msg(property, tenant) ==
    /\ last = Idle
    /\ last' = Call("get_timespan", NoAccount, property, tenant, 0,
                    get_timespan(property, tenant).err,
                    get_timespan(property, tenant).val, "none", << >>)
    /\ Unchanged

get_balance ==
    /\ last = Idle
    /\ last' = Call("get_balance", NoAccount, 0, NoAccount, 0, Ok,
                    balance[Contract], "none", << >>)
    /\ Unchanged

\* ------------------------------------------------------------------ ledger
\* The block timestamp moves on between calls.
AdvanceBlock ==
    /\ last = Idle
    /\ now < MaxTime
    /\ now' = now + 1
    /\ last' = Idle
    /\ UNCHANGED <<owner, last_property_id, landlords, tenants, prices,
                   timespans, balance, events>>

\* The ledger takes the result of the message that ran; the next message is
\* dispatched after that.
CollectResult ==
    /\ last # Idle
    /\ last' = Idle
    /\ UNCHANGED <<owner, last_property_id, landlords, tenants, prices,
                   timespans, balance, now, events>>

Next ==
    \/ \E caller \in Accounts, landlord \in Landlords : approve_property(caller, landlord)
    \/ \E caller \in Accounts, property \in PropIds : remove_property(caller, property)
    \/ \E caller \in Accounts, property \in PropIds, price \in Prices :
          set_price(caller, property, price)
    \/ \E caller \in Accounts, property \in PropIds, tenant \in Tenants :
          approve_tenant(caller, property, tenant)
    \/ \E caller \in Accounts, property \in PropIds, value \in Values, host_ok \in BOOLEAN :
          pay_rent(caller, property, value, host_ok)
    \/ \E property \in PropIds : get_landlord_msg(property)
    \/ \E property \in PropIds : get_price_msg(property)
    \/ \E property \in PropIds : get_tenant_msg(property)
    \/ \E property \in PropIds, tenant \in Accounts : get_timespan_msg(property, tenant)
    \/ get_balance
    \/ AdvanceBlock
    \/ CollectResult

Spec == Init /\ [][Next]_vars

\* ================================================================== claims
\* The message of a step is read from last', the state before it from the
\* unprimed variables.  A step of a message is a step that leaves last' other
\* than Idle.

\* The store maps of the step are those before it, but for key k of map m.
SameBut(m, k) == \A x \in (DOMAIN m \cup DOMAIN m') \ {k} :
                    x \in DOMAIN m /\ x \in DOMAIN m' /\ m'[x] = m[x]

\* C1: approve_property(landlord) succeeds iff the caller is the owner fixed at
\* construction: on success the counter grows by one, landlords[new id] =
\* landlord is written and the new id is returned; any other caller gets
\* NotEnoughRights and the counter and every table stay as they were.
C1_ApprovePropertyOwnerOnly ==
    [][last'.op = "approve_property" =>
         /\ owner = Deployer
         /\ owner' = owner
         /\ IF last'.caller = owner
            THEN /\ last'.result = Ok
                 /\ last_property_id' = last_property_id + 1
                 /\ last'.ret = last_property_id + 1
                 /\ last'.ret \notin DOMAIN landlords
                 /\ last'.ret \in DOMAIN landlords'
                 /\ landlords'[last'.ret] = last'.account
                 /\ SameBut(landlords, last'.ret)
                 /\ UNCHANGED <<tenants, prices, timespans, balance>>
            ELSE /\ last'.result = "NotEnoughRights"
                 /\ UNCHANGED <<last_property_id, landlords, tenants, prices,
                                timespans, balance>>]_vars

\* C1 witness: the owner has registered a second property for bob.
C1_Witness ==
    /\ last.op = "approve_property"
    /\ last.caller = Deployer
    /\ last.result = Ok
    /\ last.ret = 2
    /\ Has(landlords, 2) /\ landlords[2] = "bob"

\* C2: the ids successful approve_property calls return are 1, 2, 3, ...: the
\* counter starts at 0, each success returns the counter plus one and stores
\* it, nothing else changes the counter, and no registered id is above the
\* counter; so no id is issued twice, also after remove_property.
C2_IdsStrictlyIncreasing ==
    /\ last_property_id = 0
    /\ [][/\ IF last'.op = "approve_property" /\ last'.result = Ok
             THEN /\ last'.ret = last_property_id + 1
                  /\ last_property_id' = last'.ret
             ELSE last_property_id' = last_property_id
          /\ \A p \in DOMAIN landlords' : 1 <= p /\ p <= last_property_id']_vars

\* C2 witness: id 2 is issued after property 1 was removed.
C2_Witness ==
    /\ last.op = "approve_property"
    /\ last.result = Ok
    /\ last.ret = 2
    /\ ~Has(landlords, 1)

\* C3: set_price and approve_tenant return PropertyDoesntExist when the
\* property has no landlord record, whoever calls; NotEnoughRights when the
\* caller is not that landlord (the owner included); and otherwise succeed and
\* leave exactly the value passed in prices[p] (resp. tenants[p]).
C3_LandlordOnlyWrites ==
    [][last'.op \in {"set_price", "approve_tenant"} =>
         LET p == last'.property
             c == last'.caller
         IN  IF ~Has(landlords, p)
             THEN /\ last'.result = "PropertyDoesntExist"
                  /\ UNCHANGED <<prices, tenants>>
             ELSE IF c # landlords[p]
             THEN /\ last'.result = "NotEnoughRights"
                  /\ UNCHANGED <<prices, tenants>>
             ELSE /\ last'.result = Ok
                  /\ IF last'.op = "set_price"
                     THEN /\ Has(prices', p) /\ prices'[p] = last'.amount
                          /\ SameBut(prices, p)
                          /\ tenants' = tenants
                     ELSE /\ Has(tenants', p) /\ tenants'[p] = last'.account
                          /\ SameBut(tenants, p)
                          /\ prices' = prices]_vars

\* C3 witness: the owner, who is not the landlord, is refused a price change
\* on a property whose price the landlord has set.
C3_Witness ==
    /\ last.op = "set_price"
    /\ last.caller = owner
    /\ last.result = "NotEnoughRights"
    /\ Has(prices, last.property)
    /\ prices[last.property] # last.amount

\* C4: pay_rent reports the first failing validation in the order price set,
\* value >= price, tenant set, caller = tenant; it returns Ok only if all
\* four hold.
C4_PayRentCheckOrder ==
    [][last'.op = "pay_rent" =>
         LET p == last'.property
             c == last'.caller
             v == last'.amount
         IN  /\ ~Has(prices, p) => last'.result = "PriceIsntSet"
             /\ Has(prices, p) /\ v < prices[p] => last'.result = "UnsufficientRent"
             /\ Has(prices, p) /\ v >= prices[p] /\ ~Has(tenants, p)
                   => last'.result = "NoApprovedTenant"
             /\ Has(prices, p) /\ v >= prices[p] /\ Has(tenants, p) /\ c # tenants[p]
                   => last'.result = "NotApprovedTenant"
             /\ last'.result = Ok
                   => /\ Has(prices, p) /\ v >= prices[p]
                      /\ Has(tenants, p) /\ c = tenants[p]]_vars

\* C4 witness: a caller who is not the tenant attaches too little: the value
\* check is reported, not the tenant check.
C4_Witness ==
    /\ last.op = "pay_rent"
    /\ last.result = "UnsufficientRent"
    /\ Has(tenants, last.property)
    /\ last.caller # tenants[last.property]

\* C5: whenever the price P is set, the attached value V >= P, the caller is
\* the approved tenant and the transfer succeeds, pay_rent returns Ok, the
\* landlord's balance grows by floor(V/100)*90 and timespans[(p, tenant)] is
\* (timestamp of the call, floor(V/P)).
C5_PayRentSucceeds ==
    [][/\ last'.op = "pay_rent"
       /\ Has(prices, last'.property)
       /\ last'.amount >= prices[last'.property]
       /\ Has(tenants, last'.property)
       /\ last'.caller = tenants[last'.property]
       /\ last'.transfer = "ok"
       => LET p == last'.property
              v == last'.amount
          IN  /\ last'.result = Ok
              /\ balance'[landlords[p]] = balance[landlords[p]] + (v \div 100) * 90
              /\ Has(timespans', <<p, last'.caller>>)
              /\ timespans'[<<p, last'.caller>>] = <<now, v \div prices[p]>>]_vars

C8_RemoveClears ==
    [][\A p \in PropIds :
        /\ last'.op = "remove_property"
           /\ last'.property = p
           /\ Has(landlords, p)
           /\ last'.caller \in {landlords[p], owner}
           => /\ ~Has(landlords', p)
              /\ ~Has(tenants', p)
              /\ ~Has(prices', p)
              /\ Has(tenants, p) => ~Has(timespans', <<p, tenants[p]>>)
              /\ get_landlord(p)'.err = "PropertyDoesntExist"
        /\ last'.op \in {"set_price", "approve_tenant"}
           /\ last'.property = p
           /\ ~Has(landlords, p)
           => last'.result = "PropertyDoesntExist"]_vars

\* C8 witness: the landlord removed a property whose rent had been paid, and
\* no record of the property is left.
C8_Witness ==
    /\ last.op = "remove_property"
    /\ last.caller = "bob"
    /\ last.property = 1
    /\ last_property_id = 1
    /\ balance["bob"] > 0
    /\ landlords = << >> /\ tenants = << >> /\ prices = << >> /\ timespans = << >>

\* C9: a call that returns an Error leaves the store and the balances as they
\* were, unless it is remove_property on a registered property by its landlord
\* or by the owner; remove_property by anyone else changes nothing.
C9_FailureChangesNothing ==
    [][/\ last'.result \in Errors
       /\ ~(/\ last'.op = "remove_property"
            /\ Has(landlords, last'.property)
            /\ last'.caller \in {landlords[last'.property], owner})
       => UNCHANGED <<owner, last_property_id, landlords, tenants, prices,
                      timespans, balance>>]_vars

\* C9 witness: an account that is neither landlord nor owner called
\* remove_property on a registered property that has a price and a tenant.
C9_Witness ==
    /\ last.op = "remove_property"
    /\ last.caller = "eve"
    /\ last.result = "NotEnoughRights"
    /\ Has(landlords, last.property)
    /\ Has(prices, last.property)
    /\ Has(tenants, last.property)

\* C10: when the validations of pay_rent pass and the transfer to the landlord
\* fails, pay_rent returns FailedTransferFunds and neither the timespans nor
\* any balance change.
C10_FailedTransfer ==
    [][/\ last'.op = "pay_rent"
       /\ Has(prices, last'.property)
       /\ last'.amount >= prices[last'.property]
       /\ Has(tenants, last'.property)
       /\ last'.caller = tenants[last'.property]
       /\ last'.transfer = "failed"
       => /\ last'.result = "FailedTransferFunds"
          /\ UNCHANGED <<timespans, balance>>]_vars

\* C10 witness: the ledger refused a transfer the contract could have paid.
C10_Witness ==
    /\ last.op = "pay_rent"
    /\ last.transfer = "failed"
    /\ last.result = "FailedTransferFunds"
    /\ balance[Contract] >= (last.amount \div 100) * 90

\* C11: in every reachable state a property that has a price or a tenant has a
\* landlord record.
C11_PriceTenantNeedLandlord ==
    \A p \in DOMAIN prices \cup DOMAIN tenants : Has(landlords, p)

\* C11 witness: property 1 has a price and no tenant, property 2 a tenant and
\* no price.
C11_Witness ==
    /\ Has(prices, 1) /\ ~Has(tenants, 1)
    /\ Has(tenants, 2) /\ ~Has(prices, 2)
    /\ Has(landlords, 1) /\ Has(landlords, 2)

\* C12: on a property id that approve_property has not issued (an id above the
\* counter) get_landlord fails with PropertyDoesntExist, get_price with
\* PriceIsntSet, get_tenant with NoApprovedTenant, get_timespan with
\* TimespanDoesntExist for every account, and set_price, approve_tenant and
\* remove_property with PropertyDoesntExist for every caller.
C12_NeverIssuedId ==
    [][last'.op # "idle" /\ last'.property > last_property_id =>
         /\ last'.op = "get_landlord" => last'.result = "PropertyDoesntExist"
         /\ last'.op = "get_price" => last'.result = "PriceIsntSet"
         /\ last'.op = "get_tenant" => last'.result = "NoApprovedTenant"
         /\ last'.op = "get_timespan" => last'.result = "TimespanDoesntExist"
         /\ last'.op \in {"set_price", "approve_tenant", "remove_property"}
               => last'.result = "PropertyDoesntExist"
         /\ \A a \in Accounts :
               /\ ~get_landlord(last'.property).ok
               /\ ~get_price(last'.property).ok
               /\ ~get_tenant(last'.property).ok
               /\ ~get_timespan(last'.property, a).ok]_vars

\* C12 witness: get_timespan is asked for an id not issued, for an account
\* that holds a timespan record on an issued property.
C12_Witness ==
    /\ last.op = "get_timespan"
    /\ last.property > last_property_id
    /\ last.result = "TimespanDoesntExist"
    /\ \E p \in 1 .. last_property_id : Has(timespans, <<p, last.account>>)

\* C13: the event log only grows, by exactly one event on each successful
\* approve_property (PropertyApproved with the new id and the landlord),
\* set_price (PriceSet with the property and the price) and approve_tenant
\* (TenantApproved with the property and the tenant), and by none on a failed
\* call, a pay_rent, a remove_property or a getter.
C13_OneEventPerSuccess ==
    [][/\ events' = events + Len(last'.emitted)
       /\ last'.emitted =
            IF last'.result # Ok THEN << >>
            ELSE IF last'.op = "approve_property"
            THEN << [kind |-> "PropertyApproved", property |-> last_property_id + 1,
                     account |-> last'.account, amount |-> 0] >>
            ELSE IF last'.op = "set_price"
            THEN << [kind |-> "PriceSet", property |-> last'.property,
                     account |-> NoAccount, amount |-> last'.amount] >>
            ELSE IF last'.op = "approve_tenant"
            THEN << [kind |-> "TenantApproved", property |-> last'.property,
                     account |-> last'.account, amount |-> 0] >>
            ELSE << >>]_vars

\* C13 witness: the landlord's approve_tenant emitted the fourth event of the
\* run, after a payment that emitted none.
C13_Witness ==
    /\ last.op = "approve_tenant"
    /\ last.result = Ok
    /\ Len(last.emitted) = 1
    /\ events = 4
    /\ last_property_id = 1
    /\ \E a \in Tenants : Has(timespans, <<1, a>>)

\* C14: a successful set_price(p, x) on a state in which the price of p is
\* already x (the state any successful set_price(p, x) leaves) changes nothing
\* in the store or the balances; it only emits one more PriceSet event.
C14_SetPriceIdempotent ==
    [][last'.op = "set_price" /\ last'.result = Ok =>
         /\ Has(prices', last'.property)
         /\ prices'[last'.property] = last'.amount
         /\ UNCHANGED <<owner, last_property_id, landlords, tenants, timespans, balance>>
         /\ Has(prices, last'.property) /\ prices[last'.property] = last'.amount
            => /\ UNCHANGED <<owner, last_property_id, landlords, tenants, prices,
                              timespans, balance>>
               /\ events' = events + 1
               /\ Len(last'.emitted) = 1
               /\ last'.emitted[1].kind = "PriceSet"]_vars

\* C14 witness: the price of property 1 was set to 12000, its tenant paid two
\* months at that price, and the landlord has set 12000 again; the four events
\* of the run leave no room for another price in between.
C14_Witness ==
    /\ last.op = "set_price"
    /\ last.result = Ok
    /\ last.property = 1
    /\ last.amount = 12000
    /\ events = 4
    /\ last_property_id = 1
    /\ Has(tenants, 1)
    /\ Has(timespans, <<1, tenants[1]>>)
    /\ timespans[<<1, tenants[1]>>][2] = 2

\* C15: in pay_rent the transfer comes after every validation and before the
\* timespan write, and once the transfer has succeeded the call cannot fail
\* or abort: it returns Ok and the timespan record is written.
C15_TransferThenWrite ==
    [][last'.op = "pay_rent" /\ last'.transfer = "ok" =>
         /\ Has(prices, last'.property)
         /\ last'.amount >= prices[last'.property]
         /\ Has(tenants, last'.property)
         /\ last'.caller = tenants[last'.property]
         /\ Has(landlords, last'.property)
         /\ last'.result = Ok
         /\ Has(timespans', <<last'.property, last'.caller>>)
         /\ timespans'[<<last'.property, last'.caller>>][1] = now]_vars

\* C16: approve_tenant leaves timespans as it was, so the record of a tenant
\* who paid is still returned by get_timespan after another tenant is
\* approved, and a payment by the new tenant touches only the payer's record.
C16_ApproveTenantKeepsTimespans ==
    [][/\ last'.op = "approve_tenant" => UNCHANGED timespans
       /\ last'.op = "pay_rent" =>
            \A k \in DOMAIN timespans :
                k # <<last'.property, last'.caller>> =>
                    k \in DOMAIN timespans' /\ timespans'[k] = timespans[k]
       /\ last'.op = "get_timespan" /\ Has(timespans, <<last'.property, last'.account>>) =>
            /\ last'.result = Ok
            /\ last'.ret = timespans[<<last'.property, last'.account>>]]_vars

\* C16 witness: get_timespan returns the record of a former tenant of a
\* property whose present tenant has paid as well.
C16_Witness ==
    /\ last.op = "get_timespan"
    /\ last.result = Ok
    /\ Has(tenants, last.property)
    /\ last.account # tenants[last.property]
    /\ Has(timespans, <<last.property, tenants[last.property]>>)
    /\ last.ret = timespans[<<last.property, last.account>>]

\* C17: a successful pay_rent replaces the record of the paying tenant:
\* timespans[(p, tenant)] becomes (timestamp of this call, floor(V/P)) whether
\* or not a record was there, and no other record is added, changed or dropped.
C17_PayRentReplaces ==
    [][last'.op = "pay_rent" /\ last'.result = Ok =>
         LET k == <<last'.property, last'.caller>>
         IN  /\ DOMAIN timespans' = DOMAIN timespans \cup {k}
             /\ timespans'[k] = <<now, last'.amount \div prices[last'.property]>>
             /\ SameBut(timespans, k)]_vars

\* C17 witness: the tenant of property 1 has paid 12000 twice at the one price
\* ever set (three events: the property, the price, the tenant), the landlord
\* holds both payouts, and the record is the one of the second payment.
C17_Witness ==
    /\ last.op = "pay_rent"
    /\ last.result = Ok
    /\ last.amount = 12000
    /\ last.property = 1
    /\ events = 3
    /\ last_property_id = 1
    /\ balance["bob"] = 21600
    /\ now = 1
    /\ timespans[<<1, last.caller>>] = <<1, 1>>

C19_PayRentFindsLandlord ==
    [][last'.op = "pay_rent" =>
         /\ last'.result # "PropertyDoesntExist"
         /\ (/\ Has(prices, last'.property)
             /\ last'.amount >= prices[last'.property]
             /\ Has(tenants, last'.property)
             /\ last'.caller = tenants[last'.property])
            => Has(landlords, last'.property)]_vars

\* C19 witness: pay_rent on a property that was removed after a tenant had paid
\* for it is stopped at the price check.
C19_Witness ==
    /\ last.op = "pay_rent"
    /\ last.property <= last_property_id
    /\ ~Has(landlords, last.property)
    /\ Has(timespans, <<last.property, last.caller>>)
    /\ last.result = "PriceIsntSet"

\* C20: set_price, approve_tenant, pay_rent and remove_property called with
\* property p leave the landlord, tenant, price and timespan records of every
\* other property as they were; no step changes the owner, and no step gives
\* an existing landlord record another account.
C20_PropertiesIsolated ==
    [][/\ owner' = owner
       /\ \A q \in DOMAIN landlords :
              Has(landlords', q) => landlords'[q] = landlords[q]
       /\ last'.op \in {"set_price", "approve_tenant", "pay_rent", "remove_property"} =>
            /\ SameBut(landlords, last'.property)
            /\ SameBut(tenants, last'.property)
            /\ SameBut(prices, last'.property)
            /\ \A k \in DOMAIN timespans \cup DOMAIN timespans' :
                   k[1] # last'.property =>
                       /\ k \in DOMAIN timespans
                       /\ k \in DOMAIN timespans'
                       /\ timespans'[k] = timespans[k]]_vars

\* C20 witness: property 1 has just been removed while property 2 keeps its
\* landlord, its price, its tenant and the tenant's record.
C20_Witness ==
    /\ last.op = "remove_property"
    /\ last.property = 1
    /\ ~Has(landlords, 1)
    /\ Has(landlords, 2)
    /\ Has(prices, 2)
    /\ Has(tenants, 2)
    /\ Has(timespans, <<2, tenants[2]>>)
====
